---- MODULE Spec2Model ----
(***************************************************************************)
(* A model of reposheet.py: the sparkline formatter, the memoized          *)
(* attribute resolver GitHubRepoScanner.get_repo_attr, the generator       *)
(* GitHubRepoScanner.scan_repos and the notebook handler                   *)
(* ReposheetUI.start_scan.                                                 *)
(*                                                                         *)
(* Encodings.  A Python str is a TLA+ string, except repository names and  *)
(* regular expressions, which are sequences of character codes so that     *)
(* str.lower and re.match are computed.  An Optional value is None (the    *)
(* empty tuple) or a one-element tuple.  A float is the fraction           *)
(* [n |-> numerator, d |-> denominator].                                   *)
(***************************************************************************)
EXTENDS Integers, Sequences, FiniteSets, TLC

VARIABLES
    ver,        \* the hosting service's data version (what accessors would return now)
    cache,      \* the memoization store of get_repo_attr: signature -> value
    log,        \* history: every get_repo_attr call, in order
    gen,        \* the scan_repos generator: its arguments and its position
    owner,      \* local of scan_repos: the resolved owner's login
    hosted,     \* the hosting service: the names of the repositories of every owner
    repos,      \* local of scan_repos: the sorted (then filtered) list
    idx,        \* local of scan_repos: loop index into repos
    out,        \* history: everything the generator has yielded
    net,        \* history: the network calls made while resolving and listing
    ncalls,     \* history: how many get_repo_attr calls the caller made itself
    ui,         \* ReposheetUI: widgets and the position of start_scan
    spark       \* the last sparkline_svg call: its input and its result

vars == <<ver, cache, log, gen, owner, hosted, repos, idx, out, net, ncalls, ui, spark>>

-----------------------------------------------------------------------------
(* Bounds of the model *)

MaxRepos == 2
MaxCalls == 1
MaxLen == 3
MaxVal == 3

(* Program constants *)

DefaultHeight == 10
DefaultWeight == 2
ScanHeight == 15
ScanWidth == 100
OwnerPart == 1

None == <<>>
Some(x) == <<x>>
Truthy(s) == s # None /\ s # Some("")

Max(S) == CHOOSE x \in S : \A y \in S : y <= x
Min(S) == CHOOSE x \in S : \A y \in S : x <= y
Range(s) == {s[i] : i \in 1..Len(s)}

\* F applied to the value of x, with x evaluated once
Bind(x, F(_)) == CHOOSE r \in {F(v) : v \in {x}} : TRUE

RECURSIVE Sum(_)
Sum(s) == IF s = <<>> THEN 0 ELSE Head(s) + Sum(Tail(s))

-----------------------------------------------------------------------------
(* sparkline_svg *)

Frac(n, d) == [n |-> n, d |-> d]

SparkParams == {[width |-> None, height |-> None],
                [width |-> Some(ScanWidth), height |-> Some(ScanHeight)]}

sparkline_svg(data, params) ==
    LET width == IF params.width = None THEN Len(data) ELSE params.width[1]
        height == IF params.height = None THEN DefaultHeight ELSE params.height[1]
    IN  IF data = <<>>
        THEN [raised |-> "ValueError"]
        ELSE LET min_ == Min(Range(data))
                 max_ == Max(Range(data))
             IN  IF min_ # max_ /\ max_ = 0
                 THEN [raised |-> "ZeroDivisionError"]
                 ELSE [raised |-> "",
                       height |-> height,
                       width |-> width,
                       stroke |-> "#8cc665",
                       weight |-> DefaultWeight,
                       points |->
                         [i \in 1..Len(data) |->
                            [x |-> Frac((i - 1) * width, Len(data)),
                             y |-> IF min_ # max_
                                   THEN Frac((max_ - data[i]) * height, max_)
                                   ELSE Frac(height - 1, 1)]]]

-----------------------------------------------------------------------------
(* Repository names, str.lower, sorted and re.match *)

\* "a", "B" and "ab" as character codes
RepoNames == {<<97>>, <<66>>, <<97, 98>>}

lower(s) == [i \in 1..Len(s) |-> IF s[i] \in 65..90 THEN s[i] + 32 ELSE s[i]]

\* s < t for Python strings: at the first difference, or s a proper prefix of t
StrLess(s, t) ==
    \E k \in 1..(Len(t)) :
        /\ \A j \in 1..(k - 1) : j <= Len(s) /\ s[j] = t[j]
        /\ \/ k = Len(s) + 1
           \/ k <= Len(s) /\ s[k] < t[k]

SortKeyCaseSensitive(r) == r.name

\* key=lambda r: r.name.lower()
SortKey(r) == lower(r.name)

\* list.insert for a stable ascending sort: x goes behind every element whose key is not greater
RECURSIVE InsertSorted(_, _)
InsertSorted(x, s) ==
    IF s = <<>> THEN <<x>>
    ELSE IF StrLess(SortKey(x), SortKey(Head(s))) THEN <<x>> \o s
    ELSE <<Head(s)>> \o InsertSorted(x, Tail(s))

RECURSIVE sorted(_)
sorted(s) ==
    IF s = <<>> THEN <<>>
    ELSE Bind(sorted(SubSeq(s, 1, Len(s) - 1)), LAMBDA t : InsertSorted(s[Len(s)], t))

\* A regular expression of the modelled fragment: one character class per
\* position, optionally followed by "$".
EmptyPattern == [atoms |-> <<>>, dollar |-> FALSE]
PatA == [atoms |-> <<{97}>>, dollar |-> FALSE]           \* "a"
PatB == [atoms |-> <<{98}>>, dollar |-> FALSE]           \* "b"
PatAEnd == [atoms |-> <<{97}>>, dollar |-> TRUE]         \* "a$"

\* re.search: the pattern matches at some position
re_search(pat, s) ==
    \E off \in 0..Len(s) :
        /\ Len(s) - off >= Len(pat.atoms)
        /\ \A i \in 1..Len(pat.atoms) : s[off + i] \in pat.atoms[i]
        /\ pat.dollar => Len(s) - off = Len(pat.atoms)

\* re.match: the pattern matches at the start of the string
re_match(pat, s) ==
    /\ Len(s) >= Len(pat.atoms)
    /\ \A i \in 1..Len(pat.atoms) : s[i] \in pat.atoms[i]
    /\ pat.dollar => Len(s) = Len(pat.atoms)

PatTruthy(p) == p # None /\ p # Some(EmptyPattern)

-----------------------------------------------------------------------------
(* The hosting service: owners, repositories and their attributes *)

Orgs == {"org1"}
Users == {"usr1"}

Repo(login, name) == [owner |-> login, name |-> name]

PlainAttrs == {"name", "full_name", "private", "archived", "fork", "created_at",
               "forks_count", "stargazers_count"}
CountKeys == <<"issues", "contributors", "subscribers", "branches", "releases",
               "tags", "labels", "pulls", "downloads">>
PagedMethods == {"get_" \o CountKeys[i] : i \in 1..Len(CountKeys)} \cup {"get_commits"}
OtherMethods == {"get_languages", "get_stats_commit_activity"}
Accessors == PlainAttrs \cup PagedMethods \cup OtherMethods

\* repo.<name> for a plain attribute, at data version v
Attribute(repo, name, v) ==
    CASE name = "name" -> repo.name
      [] name = "full_name" -> <<repo.owner, repo.name>>
      [] name = "private" -> FALSE
      [] name = "archived" -> v > 0
      [] name = "fork" -> Len(repo.name) > 1
      [] name = "created_at" -> Len(repo.name)
      [] name = "forks_count" -> v
      [] name = "stargazers_count" -> Len(repo.name) + v

\* repo.<name>(*args) for a method, at data version v
Invoke(repo, name, args, v) ==
    CASE name \in PagedMethods -> [totalCount |-> Len(repo.name) + v + Len(args)]
      [] name = "get_languages" ->
            [l \in (IF v = 0 THEN {"Python"} ELSE {"C", "Python"}) |-> Len(repo.name)]
      [] name = "get_stats_commit_activity" ->
            IF repo.name = <<66>> THEN None
            ELSE <<Len(repo.name) - 1, v, Len(repo.name)>>

-----------------------------------------------------------------------------
(* GitHubRepoScanner.get_repo_attr under @cached *)

Sig(repo, name, total, args, kwargs) ==
    [repo |-> repo, name |-> name, total |-> total, args |-> args, kwargs |-> kwargs]

\* The decorated function's body.  flt.bad are the accessors that fail now,
\* flt.exc is what they raise.
AttrBody(sig, v, flt) ==
    IF sig.name \notin Accessors THEN [raised |-> "AttributeError"]
    ELSE IF sig.name \in flt.bad THEN [raised |-> flt.exc]
    ELSE IF sig.name \in PlainAttrs
         THEN [raised |-> "", val |-> Attribute(sig.repo, sig.name, v)]
    ELSE LET res == Invoke(sig.repo, sig.name, sig.args, v)
         IN  IF ~sig.total THEN [raised |-> "", val |-> res]
             ELSE IF sig.name \in PagedMethods
                  THEN [raised |-> "", val |-> res.totalCount]
                  ELSE [raised |-> "AttributeError"]

\* What the memoizing wrapper stores after the body has run with result r
StoreAlways(c, sig, r) ==
    (sig :> (IF r.raised = "" THEN r.val ELSE None)) @@ c

Store(c, sig, r) ==
    IF r.raised = "" THEN (sig :> r.val) @@ c ELSE c

\* The wrapper's lookup: is there a stored value to return for sig?
LookupNever(c, sig) == FALSE

Lookup(c, sig) == sig \in DOMAIN c

\* One call of get_repo_attr on memory m = [cache, log]; the result carries
\* the new memory and the call's outcome.
get_repo_attr(m, sig, v, flt) ==
    IF Lookup(m.cache, sig)
    THEN [cache |-> m.cache,
          log |-> Append(m.log, [sig |-> sig, hit |-> TRUE, raised |-> "",
                                 val |-> m.cache[sig]]),
          raised |-> "", val |-> m.cache[sig]]
    ELSE LET r == AttrBody(sig, v, flt)
         IN  [cache |-> Store(m.cache, sig, r),
              log |-> Append(m.log, [sig |-> sig, hit |-> FALSE, raised |-> r.raised,
                                     val |-> IF r.raised = "" THEN r.val ELSE None]),
              raised |-> r.raised,
              val |-> IF r.raised = "" THEN r.val ELSE None]

-----------------------------------------------------------------------------
(* scan_repos: the record of one repository *)

DefaultFields ==
    <<"name", "private", "archived", "fork", "created_at">> \o CountKeys \o
    <<"forks_count", "stargazers_count", "get_languages", "get_commits", "commit_activity">>

\* The order in which the loop body looks at the field names
DispatchOrder ==
    <<"name", "full_name", "private", "archived", "fork", "created_at">> \o CountKeys \o
    <<"forks_count", "stargazers_count", "get_languages", "get_commits",
      "commits_1y", "commit_activity">>

\* sorted() of the language names
LangOrder == <<"C", "Python">>

\* f'<a href="https://github.com/{login}/{repo_name}">{text}</a>'
Link(login, repo_name, text) ==
    [href |-> <<"https://github.com", login, repo_name>>, text |-> text]

\* get = self.get_repo_attr, called on the loop state st with the defaults args=[], kwargs={}
Get(st, repo, name, total, v, flt) ==
    get_repo_attr([cache |-> st.cache, log |-> st.log],
                  Sig(repo, name, total, <<>>, <<>>), v, flt)

\* st after a call g: the memory moves on, an exception is recorded
After(st, g) == [st EXCEPT !.cache = g.cache, !.log = g.log, !.raised = g.raised]

Put(st, g, key, value) ==
    IF g.raised # "" THEN After(st, g)
    ELSE [After(st, g) EXCEPT !.entry = (key :> value) @@ st.entry]

\* except: entry["get_commits"] = None, with the exception propagating instead
CommitsFailedRaise(st, g) == After(st, g)

\* except: entry["get_commits"] = None
CommitsFailed(st, g) ==
    [After(st, g) EXCEPT !.raised = "", !.entry = ("get_commits" :> None) @@ st.entry]

\* One "if <key> in fields:" block of the loop body
FieldStep(key, st, repo, login, v, flt) ==
    CASE key = "name" ->
            Bind(Get(st, repo, "name", FALSE, v, flt),
                 LAMBDA g : Put(st, g, key, Link(login, g.val, g.val)))
      [] key = "full_name" ->
            Bind(Get(st, repo, "full_name", FALSE, v, flt),
                 LAMBDA g : Put(st, g, key, Link(login, g.val[2], g.val)))
      [] key \in {"private", "archived", "fork"} ->
            Bind(Get(st, repo, key, FALSE, v, flt),
                 LAMBDA g : Put(st, g, key, IF g.val THEN "T" ELSE "F"))
      [] key \in {"created_at", "forks_count", "stargazers_count"} ->
            Bind(Get(st, repo, key, FALSE, v, flt),
                 LAMBDA g : Put(st, g, key, g.val))
      [] key \in Range(CountKeys) ->
            Bind(Get(st, repo, "get_" \o key, TRUE, v, flt),
                 LAMBDA g : Put(st, g, key, g.val))
      [] key = "get_languages" ->
            Bind(Get(st, repo, "get_languages", FALSE, v, flt),
                 LAMBDA g : Put(st, g, key,
                                SelectSeq(LangOrder, LAMBDA l : l \in DOMAIN g.val)))
      [] key = "get_commits" ->
            Bind(Get(st, repo, "get_commits", TRUE, v, flt),
                 LAMBDA g : IF g.raised # "" THEN CommitsFailed(st, g)
                            ELSE Put(st, g, key, Some(g.val)))
      [] key = "commits_1y" ->
            Bind(Get(st, repo, "get_stats_commit_activity", FALSE, v, flt),
                 LAMBDA g : Put(st, g, key, IF g.val # <<>> THEN Sum(g.val) ELSE 0))
      [] key = "commit_activity" ->
            Bind(Get(st, repo, "get_stats_commit_activity", FALSE, v, flt),
                 LAMBDA g : Put(st, g, key,
                                IF g.val # <<>>
                                THEN sparkline_svg(g.val, [width |-> Some(ScanWidth),
                                                           height |-> Some(ScanHeight)])
                                ELSE ""))

RECURSIVE BuiltIns(_, _, _, _, _, _, _)
BuiltIns(i, st, repo, login, fields, v, flt) ==
    IF i > Len(DispatchOrder) \/ st.raised # "" THEN st
    ELSE IF DispatchOrder[i] \notin Range(fields)
         THEN BuiltIns(i + 1, st, repo, login, fields, v, flt)
         ELSE Bind(FieldStep(DispatchOrder[i], st, repo, login, v, flt),
                   LAMBDA s : BuiltIns(i + 1, s, repo, login, fields, v, flt))

\* The callbacks of the model, cb_rank and cb_flag; cb(scanner, repo) returns a dict
CallbackResult(cb, repo) ==
    CASE cb = "cb_rank" -> [rank |-> 1, stargazers_count |-> 0]
      [] cb = "cb_flag" -> [rank |-> 2, fork |-> "T"]

\* dict.update done the wrong way round: the keys already present win
UpdateKeep(entry, d) == entry @@ d

\* entry.update(d)
Update(entry, d) == d @@ entry

RECURSIVE ApplyCallbacks(_, _, _, _)
ApplyCallbacks(i, entry, cbs, repo) ==
    IF i > Len(cbs) THEN entry
    ELSE ApplyCallbacks(i + 1, Update(entry, CallbackResult(cbs[i], repo)), cbs, repo)

\* The loop body for one repo, from "entry = {}" to "yield entry"
Entry(m, repo, login, fields, cbs, v, flt) ==
    Bind(BuiltIns(1, [entry |-> <<>>, cache |-> m.cache, log |-> m.log, raised |-> ""],
                  repo, login, fields, v, flt),
         LAMBDA st :
            IF st.raised # "" THEN [st EXCEPT !.entry = <<>>] @@ [builtin |-> <<>>]
            ELSE [st EXCEPT !.entry = IF cbs = None THEN st.entry
                                      ELSE ApplyCallbacks(1, st.entry, cbs[1], repo)]
                 @@ [builtin |-> st.entry])

-----------------------------------------------------------------------------
(* scan_repos: owner resolution, listing and the generator's steps *)

Args(org, user, own, pat, fields, cbs) ==
    [org_name |-> org, user_name |-> user, owner_name |-> own,
     repo_name_pat |-> pat, fields |-> fields, callbacks |-> cbs]

NoFault == [at |-> 0, exc |-> ""]
NetExcs == {"RateLimitExceededException", "BadCredentialsException"}
NetFaults == {NoFault} \cup {[at |-> k, exc |-> e] : k \in 1..3, e \in NetExcs}

\* One request to the service, the k-th of this scan: the fault strikes, or
\* the login is looked up among known
Request(login, known, k, fault) ==
    IF fault.at = k THEN fault.exc
    ELSE IF login # None /\ login[1] \in known THEN "" ELSE "UnknownObjectException"

\* len(list(filter(None, [org_name, user_name, owner_name])))
Supplied(a) ==
    Cardinality({n \in {"org_name", "user_name", "owner_name"} : Truthy(a[n])})

\* The assertion written as "at least one"
ValidatedAtLeastOne(a) == Supplied(a) >= 1

\* assert len(...) == 1
Validated(a) == Supplied(a) = 1

\* The request as it is remembered in net
Req(op, login, known, k, fault) ==
    [op |-> op, login |-> login, raised |-> Request(login, known, k, fault)]

\* Owner resolution with the user lookup tried first
ResolveUserFirst(a, fault) ==
    IF ~Truthy(a.owner_name)
    THEN IF Truthy(a.org_name)
         THEN <<Req("get_organization", a.org_name, Orgs, 1, fault)>>
         ELSE <<Req("get_user", a.user_name, Users, 1, fault)>>
    ELSE IF Request(a.owner_name, Users, 1, fault) # "UnknownObjectException"
         THEN <<Req("get_user", a.owner_name, Users, 1, fault)>>
         ELSE <<Req("get_user", a.owner_name, Users, 1, fault),
                Req("get_organization", a.owner_name, Orgs, 2, fault)>>

\* Lines 112-121: the requests made to find the owner; the last one found it or raised
Resolve(a, fault) ==
    IF ~Truthy(a.owner_name)
    THEN IF Truthy(a.org_name)
         THEN <<Req("get_organization", a.org_name, Orgs, 1, fault)>>
         ELSE <<Req("get_user", a.user_name, Users, 1, fault)>>
    ELSE IF Request(a.owner_name, Orgs, 1, fault) # "UnknownObjectException"
         THEN <<Req("get_organization", a.owner_name, Orgs, 1, fault)>>
         ELSE <<Req("get_organization", a.owner_name, Orgs, 1, fault),
                Req("get_user", a.owner_name, Users, 2, fault)>>

\* What owner.get_repos() can return: the owner's repositories in any order
Listings(login) ==
    {[i \in 1..Cardinality(hosted) |-> Repo(login, f[i])] :
        f \in {g \in [1..Cardinality(hosted) -> hosted] :
                  \A i, j \in 1..Cardinality(hosted) : i # j => g[i] # g[j]}}

\* The filter written with re.search
FilteredSearch(rs, pat) ==
    IF PatTruthy(pat) THEN SelectSeq(rs, LAMBDA r : re_search(pat[1], r.name)) ELSE rs

\* [r for r in repos if re.match(repo_name_pat, r.name)]
Filtered(rs, pat) ==
    IF PatTruthy(pat) THEN SelectSeq(rs, LAMBDA r : re_match(pat[1], r.name)) ELSE rs

\* fields or "<the default list>".split()
Effective(fields) == IF fields = None \/ fields = Some(<<>>) THEN DefaultFields ELSE fields[1]

\* The accessor a field name is resolved through
AccessorOf(key) ==
    IF key \in Range(CountKeys) THEN "get_" \o key
    ELSE IF key \in {"commits_1y", "commit_activity"} THEN "get_stats_commit_activity"
    ELSE key

\* What can go wrong while one record is built: get_commits fails or not, at
\* most one other accessor of the requested fields fails, with one exception type
AttrExcs == {"RateLimitExceededException", "GithubException", "KeyboardInterrupt"}
EntryFaults(fields) ==
    {[bad |-> gc \cup other, exc |-> e] :
        gc \in {{}, {"get_commits"} \cap {AccessorOf(fields[i]) : i \in 1..Len(fields)}},
        other \in {{}} \cup {{AccessorOf(fields[i])} : i \in 1..Len(fields)},
        e \in AttrExcs}

\* The first next(gen): lines 110-125
GenFirst(a) ==
    IF ~Validated(a)
    THEN /\ gen' = [pc |-> "raised", args |-> a, err |-> "AssertionError"]
         /\ UNCHANGED <<owner, hosted, repos, idx, out, net>>
    ELSE \E fault \in NetFaults :
           LET r == Resolve(a, fault)
               last == r[Len(r)]
               listed == [op |-> "get_repos", login |-> last.login,
                          raised |-> IF fault.at = Len(r) + 1 THEN fault.exc ELSE ""]
           IN  IF last.raised # ""
               THEN /\ gen' = [pc |-> "raised", args |-> a, err |-> last.raised]
                    /\ net' = net \o r
                    /\ UNCHANGED <<owner, hosted, repos, idx, out>>
               ELSE IF listed.raised # ""
               THEN /\ gen' = [pc |-> "raised", args |-> a, err |-> listed.raised]
                    /\ net' = net \o r \o <<listed>>
                    /\ owner' = last.login[1]
                    /\ UNCHANGED <<hosted, repos, idx, out>>
               ELSE \E l \in Listings(last.login[1]) :
                    /\ gen' = [pc |-> "listed", args |-> a, err |-> ""]
                    /\ net' = net \o r \o <<listed>>
                    /\ owner' = last.login[1]
                    /\ UNCHANGED hosted
                    /\ repos' = sorted(l)
                    /\ idx' = 0
                    /\ out' = Append(out, [val |-> sorted(l)])

\* Every later next(gen): lines 128-135 once, then one turn of the loop
GenResume ==
    LET a == gen.args
        rs == IF gen.pc = "listed" THEN Filtered(repos, a.repo_name_pat) ELSE repos
        fields == Effective(a.fields)
    IN  /\ repos' = rs
        /\ UNCHANGED <<owner, hosted, net>>
        /\ IF idx >= Len(rs)
           THEN /\ gen' = [gen EXCEPT !.pc = "done"]
                /\ UNCHANGED <<idx, out, cache, log>>
           ELSE \E flt \in EntryFaults(fields) :
                \E e \in {Entry([cache |-> cache, log |-> log], rs[idx + 1], owner,
                                 fields, a.callbacks, ver, flt)} :
                      /\ cache' = e.cache
                      /\ log' = e.log
                      /\ IF e.raised # ""
                         THEN /\ gen' = [gen EXCEPT !.pc = "raised", !.err = e.raised]
                              /\ UNCHANGED <<idx, out>>
                         ELSE /\ gen' = [gen EXCEPT !.pc = "looping"]
                              /\ idx' = idx + 1
                              /\ out' = Append(out, [val |-> e.entry, repo |-> rs[idx + 1],
                                                     builtin |-> e.builtin])

-----------------------------------------------------------------------------
(* The callers of the scanner *)

CustomFields == <<"full_name", "fork", "stargazers_count", "get_commits",
                  "commits_1y", "commit_activity">>

\* The arguments a program passes to scan_repos
ApiArgs ==
    {Args(org, user, own, pat, fields, cbs) :
        org \in {None, Some("org1")},
        user \in {None, Some("usr1")},
        own \in {None, Some(""), Some("org1"), Some("usr1"), Some("ghost")},
        pat \in {None, Some(PatA), Some(PatB)},
        fields \in {None, Some(CustomFields)},
        cbs \in {None, Some(<<"cb_rank", "cb_flag">>), Some(<<"cb_flag", "cb_rank">>)}}

\* One scan that resolves get_commits and both commit-activity fields
CacheArgs ==
    {Args(None, None, Some("org1"), None,
          Some(<<"get_commits", "commits_1y", "commit_activity">>), None)}

\* scanner.scan_repos(...): the generator object is created, nothing runs yet
ScanRepos(S) ==
    /\ gen.pc = "none"
    /\ ui.pc = "idle"
    /\ \E a \in S : gen' = [pc |-> "created", args |-> a, err |-> ""]
    /\ UNCHANGED <<ver, cache, log, owner, hosted, repos, idx, out, net, ncalls, ui, spark>>

ScanReposApi == ScanRepos(ApiArgs)

ScanReposCache == ScanRepos(CacheArgs)

\* next(gen) on a fresh generator
NextFirst ==
    /\ gen.pc = "created"
    /\ GenFirst(gen.args)
    /\ UNCHANGED <<ver, cache, log, ncalls, ui, spark>>

\* next(gen) on a suspended generator
NextEntry ==
    /\ gen.pc \in {"listed", "looping"}
    /\ ui.pc = "idle"
    /\ GenResume
    /\ UNCHANGED <<ver, ncalls, ui, spark>>

\* The caller's own scanner.get_repo_attr(repo, name, total, args) on a listed
\* repo: the two calls the scan makes, get_commits of a branch, totalCount of
\* something that has none, and an attribute that does not exist
DirectCalls ==
    {[name |-> "get_commits", total |-> TRUE, args |-> <<>>],
     [name |-> "get_commits", total |-> TRUE, args |-> <<"main">>],
     [name |-> "get_stats_commit_activity", total |-> FALSE, args |-> <<>>],
     [name |-> "get_stats_commit_activity", total |-> TRUE, args |-> <<>>],
     [name |-> "nope", total |-> FALSE, args |-> <<>>]}
DirectExcs == {"GithubException"}

GetRepoAttr ==
    /\ ncalls < MaxCalls
    /\ gen.pc \in {"listed", "looping", "done", "raised"}
    /\ out # <<>>
    /\ \E repo \in Range(out[1].val), c \in DirectCalls, fails \in BOOLEAN, e \in DirectExcs :
         \E g \in {get_repo_attr([cache |-> cache, log |-> log],
                                 Sig(repo, c.name, c.total, c.args, <<>>), ver,
                                 [bad |-> IF fails THEN {c.name} ELSE {}, exc |-> e])} :
             /\ cache' = g.cache
             /\ log' = g.log
    /\ ncalls' = ncalls + 1
    /\ UNCHANGED <<ver, gen, owner, hosted, repos, idx, out, net, ui, spark>>

\* The service's data change: every accessor would now return something else
SourceChanges ==
    /\ ver' = 1 - ver
    /\ UNCHANGED <<cache, log, gen, owner, hosted, repos, idx, out, net, ncalls, ui, spark>>

-----------------------------------------------------------------------------
(* ReposheetUI *)

UIFields == <<"name", "created_at", "fork", "contributors", "subscribers",
              "forks_count", "issues", "pulls", "stargazers_count", "get_commits",
              "commits_1y", "commit_activity">>

\* ReposheetUI.__init__ with the given fields and callbacks
NewUI(fields, callbacks) ==
    [pc |-> "idle", result |-> "none", err |-> "",
     fields |-> fields, callbacks |-> IF callbacks = None THEN <<>> ELSE callbacks[1],
     btn_description |-> "Scan", btn_disabled |-> FALSE, sx |-> "",
     btn_desc |-> None, num_repos |-> None, rows |-> 0]

\* tx.value as its "/"-separated parts, rx.value as a pattern
TxValues == {<<"github.com", "org1">>, <<"github.com", "usr1">>, <<"github.com", "ghost">>,
             <<"github.com", "">>, <<"gitlab.com", "org1">>, <<"org1">>,
             <<"https:", "", "github.com", "org1">>}
RxValues == {EmptyPattern, PatAEnd}

\* lines 316-317
Restore(u) == [u EXCEPT !.btn_disabled = FALSE, !.btn_description = u.btn_desc[1]]

\* start_scan from its first line to the creation of the progress bar (line 297)
StartScan ==
    /\ ui.pc = "idle"
    /\ gen.pc = "none"
    /\ \E tx \in TxValues, rx \in RxValues :
         IF ~(Len(tx) >= 2 /\ tx[1] = "github.com")
         THEN /\ ui' = [ui EXCEPT !.sx = "Expected: github.com/&lt;owner&gt;",
                                  !.result = "returned"]
              /\ UNCHANGED <<gen, owner, hosted, repos, idx, out, net>>
         ELSE LET fields == IF ui.fields = None \/ ui.fields = Some(<<>>)
                            THEN UIFields ELSE ui.fields[1]
                  a == Args(None, None, Some(tx[OwnerPart + 1]), Some(rx),
                            Some(fields), Some(ui.callbacks))
                  u == [ui EXCEPT !.sx = "", !.btn_desc = Some(ui.btn_description),
                                  !.btn_description = "Scanning...",
                                  !.btn_disabled = TRUE]
              IN  /\ GenFirst(a)
                  /\ ui' =
                       IF gen'.pc = "listed"
                       THEN [u EXCEPT !.num_repos = Some(Len(repos')), !.pc = "stream"]
                       ELSE IF gen'.err = "UnknownObjectException"
                       THEN [u EXCEPT !.sx = "Unknown Object", !.result = "raised",
                                      !.err = "UnboundLocalError"]
                       ELSE IF gen'.err = "RateLimitExceededException"
                       THEN [u EXCEPT !.sx = "Rate Limit Exceeded", !.result = "raised",
                                      !.err = "UnboundLocalError"]
                       ELSE IF gen'.err = "BadCredentialsException"
                       THEN [u EXCEPT !.sx = "Bad Credentials", !.result = "raised",
                                      !.err = "UnboundLocalError"]
                       ELSE [u EXCEPT !.result = "raised", !.err = gen'.err]
    /\ UNCHANGED <<ver, cache, log, ncalls, spark>>

\* One turn of "for i, row in enumerate(gen)", and what follows the loop when it ends
StreamStep ==
    /\ ui.pc = "stream"
    /\ GenResume
    /\ ui' =
         IF gen'.pc = "looping"
         THEN [ui EXCEPT !.rows = ui.rows + 1]
         ELSE IF gen'.pc = "done"
         THEN Restore([ui EXCEPT !.pc = "idle", !.result = "returned"])
         ELSE IF gen'.err = "RateLimitExceededException"
         THEN Restore([ui EXCEPT !.pc = "idle", !.result = "returned",
                                 !.sx = "Rate Limit Exceeded"])
         ELSE IF gen'.err = "KeyboardInterrupt"
         THEN Restore([ui EXCEPT !.pc = "idle", !.result = "returned"])
         ELSE [ui EXCEPT !.pc = "idle", !.result = "raised", !.err = gen'.err]
    /\ UNCHANGED <<ver, ncalls, spark>>

-----------------------------------------------------------------------------
(* sparkline_svg called on its own *)

SparkData == UNION {[1..n -> 0..MaxVal] : n \in 0..MaxLen}

SparklineSvg ==
    /\ ~spark.called
    /\ spark' = [spark EXCEPT !.called = TRUE,
                              !.result = sparkline_svg(spark.data, spark.params)]
    /\ UNCHANGED <<ver, cache, log, gen, owner, hosted, repos, idx, out, net, ncalls, ui>>

-----------------------------------------------------------------------------
(* Specifications *)

Scanner0 ==
    /\ cache = <<>>
    /\ log = <<>>
    /\ gen = [pc |-> "none", args |-> Args(None, None, None, None, None, None), err |-> ""]
    /\ owner = ""
    /\ repos = <<>>
    /\ idx = 0
    /\ out = <<>>
    /\ net = <<>>
    /\ ncalls = 0
    /\ ver = 0

Spark0 == [data |-> <<>>, params |-> [width |-> None, height |-> None],
           called |-> FALSE, result |-> None]

\* A program that drives the scanner itself
Init ==
    /\ Scanner0
    /\ hosted \in {S \in SUBSET RepoNames : Cardinality(S) <= MaxRepos}
    /\ ui = NewUI(None, None)
    /\ spark = Spark0

Next == ScanReposApi \/ NextFirst \/ NextEntry

Spec == Init /\ [][Next]_vars

\* A program that also calls get_repo_attr itself while the data change
NextCache == ScanReposCache \/ NextFirst \/ NextEntry \/ GetRepoAttr \/ SourceChanges

InitCache ==
    /\ Scanner0
    /\ hosted = {<<97>>, <<66>>}
    /\ ui = NewUI(None, None)
    /\ spark = Spark0

SpecCache == InitCache /\ [][NextCache]_vars

\* The notebook: the scanner is driven by start_scan
InitUI ==
    /\ Scanner0
    /\ hosted \in {S \in SUBSET RepoNames : Cardinality(S) <= MaxRepos}
    /\ \E f \in {None, Some(<<"name", "stargazers_count">>)},
          c \in {None, Some(<<"cb_rank">>)} : ui = NewUI(f, c)
    /\ spark = Spark0

NextUI == StartScan \/ StreamStep

SpecUI == InitUI /\ [][NextUI]_vars

\* sparkline_svg on every input of the bounded sets
InitSpark ==
    /\ Scanner0
    /\ hosted = {}
    /\ ui = NewUI(None, None)
    /\ \E d \in SparkData, p \in SparkParams :
         spark = [data |-> d, params |-> p, called |-> FALSE, result |-> None]

NextSpark == SparklineSvg

SpecSpark == InitSpark /\ [][NextSpark]_vars

-----------------------------------------------------------------------------
(* Properties *)

SameSig(i, j) == log[i].sig = log[j].sig
Invoked(e) == ~e.hit /\ e.sig.name \in Accessors
Records == SubSeq(out, 2, Len(out))
CallbackList == IF gen.args.callbacks = None THEN <<>> ELSE gen.args.callbacks[1]
Started == gen.pc \notin {"none", "created"}

\* C1 as stated: whatever the calls of get_repo_attr on one scanner are, two
\* calls with an identical signature never both invoke the repository accessor.
C1_AtMostOneInvocation ==
    \A i, j \in 1..Len(log) :
        i < j /\ SameSig(i, j) => ~(Invoked(log[i]) /\ Invoked(log[j]))

\* C1 amended: once a call of get_repo_attr has returned a value, every later
\* call with the identical signature returns that value from the cache without
\* invoking the accessor, whatever the accessor would return now; only a call
\* that raised is followed by another invocation.
C1_CachedAfterReturn ==
    \A i, j \in 1..Len(log) :
        i < j /\ SameSig(i, j) /\ log[i].raised = ""
            => log[j].hit /\ log[j].raised = "" /\ log[j].val = log[i].val

\* C1 witness: within the scan the commit-activity series of a repository was
\* fetched once and served from the cache for the second field, and the
\* service would by now return another series.
C1_Witness ==
    \E i, j \in 1..Len(log) :
        /\ i < j /\ SameSig(i, j)
        /\ log[i].sig.name = "get_stats_commit_activity"
        /\ Invoked(log[i]) /\ log[i].raised = "" /\ log[j].hit
        /\ ncalls = 0
        /\ Invoke(log[j].sig.repo, log[j].sig.name, log[j].sig.args, ver) # log[j].val

\* C8: a call of get_repo_attr that raises ran the function body (it is never
\* a stored failure that is raised again), the cache holds only values that a
\* call returned, and the next call with the same signature runs the body again.
C8_FailuresNotCached ==
    /\ \A i \in 1..Len(log) : log[i].raised # "" => ~log[i].hit
    /\ \A sig \in DOMAIN cache :
          \E i \in 1..Len(log) :
              /\ log[i].sig = sig /\ ~log[i].hit /\ log[i].raised = ""
              /\ log[i].val = cache[sig]
    /\ \A i, j \in 1..Len(log) :
          /\ i < j /\ SameSig(i, j) /\ log[i].raised # ""
          /\ \A k \in (i + 1)..(j - 1) : ~SameSig(i, k)
          => ~log[j].hit

\* C8 witness: an accessor raised, and the next call with the same signature
\* invoked it again and returned its value.
C8_Witness ==
    \E i, j \in 1..Len(log) :
        /\ i < j /\ SameSig(i, j)
        /\ log[i].raised = "GithubException"
        /\ Invoked(log[j]) /\ log[j].raised = ""
        /\ log[j].sig \in DOMAIN cache

C3_RecordsAreTheMatching ==
    out # <<>> =>
        LET pat == gen.args.repo_name_pat
            expected == SelectSeq(out[1].val,
                                  LAMBDA r : ~PatTruthy(pat) \/ re_match(pat[1], r.name))
        IN  /\ Len(Records) <= Len(expected)
            /\ \A i \in 1..Len(Records) : Records[i].repo = expected[i]
            /\ gen.pc = "done" => Len(Records) = Len(expected)

\* C3 witness: a scan with the pattern "b" over "ab" and "B" ended with no
\* record (neither name starts with "b").
C3_Witness ==
    /\ gen.pc = "done"
    /\ gen.args.repo_name_pat = Some(PatB)
    /\ hosted = {<<97, 98>>, <<66>>}
    /\ Len(out) = 1

\* C4: when zero or more than one of org_name, user_name and owner_name is
\* supplied, the first next() raises the assertion error, no request was made
\* to the service and nothing was yielded.
C4_ValidationBeforeIO ==
    Started /\ Supplied(gen.args) # 1
        => gen.pc = "raised" /\ gen.err = "AssertionError" /\ net = <<>> /\ out = <<>>

\* C4 witness: two selectors were supplied and the scan raised.
C4_Witness ==
    gen.pc = "raised" /\ Supplied(gen.args) = 2 /\ gen.args.owner_name = Some("org1")

\* C5: with a combined owner_name the first request is get_organization;
\* get_user is requested only as the second request and only after
\* get_organization raised not-found, and it is requested whenever that
\* happened; not-found reaches the caller exactly when both raised it, and then
\* get_repos was not requested and nothing was yielded.
C5_OrgThenUser ==
    Started /\ Supplied(gen.args) = 1 /\ Truthy(gen.args.owner_name) =>
        /\ net # <<>>
        /\ net[1].op = "get_organization" /\ net[1].login = gen.args.owner_name
        /\ \A i \in 1..Len(net) :
              net[i].op = "get_user" =>
                  i = 2 /\ net[1].raised = "UnknownObjectException"
                        /\ net[i].login = gen.args.owner_name
        /\ net[1].raised = "UnknownObjectException" =>
              Len(net) >= 2 /\ net[2].op = "get_user"
        /\ net[1].raised = "" => \A i \in 1..Len(net) : net[i].op # "get_user"
        /\ (gen.pc = "raised" /\ gen.err = "UnknownObjectException")
              <=> (Len(net) = 2 /\ net[1].raised = "UnknownObjectException"
                                /\ net[2].raised = "UnknownObjectException")
        /\ gen.err = "UnknownObjectException" =>
              out = <<>> /\ \A i \in 1..Len(net) : net[i].op # "get_repos"

\* C5 witness: an owner_name that is neither an organization nor a user was
\* looked up as both and the scan raised not-found.
C5_Witness ==
    /\ gen.args.owner_name = Some("ghost")
    /\ gen.pc = "raised" /\ gen.err = "UnknownObjectException"
    /\ Len(net) = 2

Failed(i) == log[i].raised # ""
RequestedFields == Range(Effective(gen.args.fields))

\* C6: in the per-repository phase a failure of get_commits leaves a record for
\* that repository with get_commits null and every other requested field and
\* every callback's keys in it (unless a later field of the same repository
\* fails), and the scan goes on; a failure of any other accessor is the last
\* thing the scan does: the generator raises that same error and has yielded no
\* record for that repository.
C6_OnlyCommitsIsLenient ==
    /\ \A i \in 1..Len(log) :
          Failed(i) /\ log[i].sig.name # "get_commits" =>
              /\ i = Len(log)
              /\ gen.pc = "raised" /\ gen.err = log[i].raised
              /\ \A k \in 1..Len(Records) : Records[k].repo # log[i].sig.repo
    /\ \A i \in 1..Len(log) :
          Failed(i) /\ log[i].sig.name = "get_commits" =>
              \/ \E k \in 1..Len(Records) :
                    /\ Records[k].repo = log[i].sig.repo
                    /\ Records[k].builtin["get_commits"] = None
                    /\ DOMAIN Records[k].builtin = RequestedFields
                    /\ \A c \in 1..Len(CallbackList) :
                          DOMAIN CallbackResult(CallbackList[c], Records[k].repo)
                              \subseteq DOMAIN Records[k].val
              \/ /\ gen.pc = "raised" /\ i < Len(log)
                 /\ log[Len(log)].sig.repo = log[i].sig.repo
                 /\ Failed(Len(log)) /\ log[Len(log)].sig.name # "get_commits"
    /\ gen.pc = "raised" /\ out # <<>> =>
          /\ log # <<>> /\ Failed(Len(log)) /\ log[Len(log)].sig.name # "get_commits"
    /\ \A k \in 1..Len(Records) :
          ("get_commits" \in DOMAIN Records[k].builtin
              /\ Records[k].builtin["get_commits"] = None)
          => \E i \in 1..Len(log) :
                /\ Failed(i) /\ log[i].sig.name = "get_commits"
                /\ log[i].sig.repo = Records[k].repo

\* C6 witness: get_commits failed for the first repository, whose record was
\* yielded with a null get_commits, the later fields and the callbacks' keys;
\* then another accessor failed for the second repository and the scan raised.
C6_Witness ==
    /\ gen.pc = "raised" /\ gen.err = "RateLimitExceededException"
    /\ Len(out) = 2
    /\ "get_commits" \in DOMAIN out[2].val /\ out[2].val["get_commits"] = None
    /\ {"commit_activity", "rank"} \subseteq DOMAIN out[2].val
    /\ log[Len(log)].sig.repo # out[2].repo

\* C7: in every record, a key that some callback returns has the value of the
\* last callback in list order that returns it, whether or not a built-in field
\* or an earlier callback set it; every other key has its built-in value; and
\* the built-in fields were all computed before.
C7_LastCallbackWins ==
    \A k \in 1..Len(Records) :
        LET r == Records[k]
            Returns(key) == {c \in 1..Len(CallbackList) :
                                key \in DOMAIN CallbackResult(CallbackList[c], r.repo)}
        IN  /\ DOMAIN r.builtin = RequestedFields
            /\ DOMAIN r.val = DOMAIN r.builtin \cup
                  UNION {DOMAIN CallbackResult(CallbackList[c], r.repo) :
                            c \in 1..Len(CallbackList)}
            /\ \A key \in DOMAIN r.val :
                  IF Returns(key) = {}
                  THEN r.val[key] = r.builtin[key]
                  ELSE r.val[key] =
                          CallbackResult(CallbackList[Max(Returns(key))], r.repo)[key]

\* C7 witness: with the callbacks cb_rank then cb_flag, a record has cb_flag's
\* rank, cb_rank's stargazers_count in place of the built-in one, cb_flag's fork
\* in place of the built-in one, and the built-in full_name.
C7_Witness ==
    /\ CallbackList = <<"cb_rank", "cb_flag">>
    /\ \E k \in 1..Len(Records) :
          /\ {"stargazers_count", "fork", "full_name"} \subseteq DOMAIN Records[k].builtin
          /\ Records[k].val["rank"] = 2
          /\ Records[k].val["stargazers_count"] = 0
          /\ Records[k].builtin["stargazers_count"] # 0
          /\ Records[k].val["fork"] = "T" /\ Records[k].builtin["fork"] = "F"
          /\ Records[k].val["full_name"] = Records[k].builtin["full_name"]

\* C9 as stated: for a non-constant sequence of non-negative integers every
\* point of the sparkline at the minimum has y = height, every point at the
\* maximum has y = 0, and every y lies in [0, height].
C9_MinAtBottomMaxAtTop ==
    (spark.called /\ spark.result.raised = ""
        /\ Min(Range(spark.data)) # Max(Range(spark.data))) =>
        \A i \in 1..Len(spark.data) :
            LET y == spark.result.points[i].y
                h == spark.result.height
            IN  /\ spark.data[i] = Min(Range(spark.data)) => y.n = h * y.d
                /\ spark.data[i] = Max(Range(spark.data)) => y.n = 0
                /\ 0 <= y.n /\ y.n <= h * y.d

====
